---- MODULE Spec2Model ----
(***************************************************************************)
(* The ping-pong demo of src/App.js: the zustand store (count, welcome,    *)
(* api.pong, api.reset), the ping audio element the store drives, the      *)
(* paddle's per-frame callback, the two collision callbacks and the        *)
(* canvas click handler.                                                   *)
(*                                                                         *)
(* Numbers the code keeps as floats are kept in fixed point:               *)
(*   velocities  in 1/VelocityUnit                                         *)
(*   volumes     in 1/VolumeOne                                            *)
(*   angles      in units of pi/Pi radians                                 *)
(* React re-renders synchronously on every store update, so the welcome    *)
(* value closed over by onClick and by the frame callback, and the         *)
(* presence of <Ball/>, are read from the store's welcome.                 *)
(***************************************************************************)
EXTENDS Integers, Sequences, FiniteSets, TLC

VARIABLES
    count,          \* store: the score
    welcome,        \* store: the welcome screen is shown
    ping,           \* the Audio element: currentTime, volume, paused
    effects,        \* the side effects of the last store call, in program order
    values,         \* Paddle: values.current, <<values[0], values[1]>>
    position,       \* Paddle body: api.position
    rotation,       \* Paddle body: api.rotation
    modelRotation,  \* Paddle model group: model.current.rotation (x, y)
    last            \* the last handler run, its argument and the state before it

storeVars  == <<count, welcome, ping, effects>>
paddleVars == <<values, position, rotation, modelRotation>>
vars       == <<count, welcome, ping, effects, values, position, rotation,
                modelRotation, last>>

(*************************** bounds and units ******************************)
MaxCount == 3
ClipLength == 2
VelocityUnit == 10
VolumeOne == 200
Pi == 50

\* impact velocities: negative, 2, exactly 4, just above 4, 10, above 20
Velocities ==
    { -VelocityUnit, 2 * VelocityUnit, 4 * VelocityUnit, 4 * VelocityUnit + 1,
      10 * VelocityUnit, 25 * VelocityUnit }

\* normalized pointer positions <<mouse.x, mouse.y>>
Pointers == { <<-1, 1>>, <<0, 0>>, <<1, -1>> }

(***************************** library calls *******************************)
Min(a, b) == IF a < b THEN a ELSE b
Max(a, b) == IF a > b THEN a ELSE b

\* lodash clamp(number, lower, upper)
clamp(number, lower, upper) ==
    IF number < lower THEN lower ELSE IF number > upper THEN upper ELSE number

\* lerp(v0, v1, 0.2) = v0 * (1 - 0.2) + v1 * 0.2, on the fixed-point grid
lerp(v0, v1) == (v0 * 4 + v1) \div 5

(******************************* the store *********************************)
PongThreshold == 4 * VelocityUnit

PingVolume(velocity) ==
    clamp((velocity * VolumeOne) \div (20 * VelocityUnit), 0, VolumeOne)

\* mutant: the threshold compared with >= instead of >
PongCount_AtLeast(c, velocity) == IF velocity >= PongThreshold THEN c + 1 ELSE c

PongCount(c, velocity) == IF velocity > PongThreshold THEN c + 1 ELSE c

\* mutants: the branches of the conditional swapped; the count never cleared;
\* the count advanced on a return to the welcome screen
ResetCount_Swapped(c, w) == IF w THEN 0 ELSE c
ResetCount_Keep(c, w) == c
ResetCount_Bump(c, w) == IF w THEN c + 1 ELSE 0

ResetCount(c, w) == IF w THEN c ELSE 0

\* mutant: the cue played only for an impact that scores
pong_AudioOnScore(velocity) ==
    /\ velocity > PongThreshold => count < MaxCount
    /\ ping' = IF velocity > PongThreshold
               THEN [currentTime |-> 0, volume |-> PingVolume(velocity), paused |-> FALSE]
               ELSE ping
    /\ count' = PongCount(count, velocity)
    /\ effects' = IF velocity > PongThreshold
                  THEN <<"ping.currentTime", "ping.volume", "ping.play", "set">>
                  ELSE <<>>
    /\ UNCHANGED welcome

pong(velocity) ==
    /\ velocity > PongThreshold => count < MaxCount
    /\ ping' = [currentTime |-> 0, volume |-> PingVolume(velocity), paused |-> FALSE]
    /\ count' = PongCount(count, velocity)
    /\ effects' = <<"ping.currentTime", "ping.volume", "ping.play">>
                    \o (IF velocity > PongThreshold THEN <<"set">> ELSE <<>>)
    /\ UNCHANGED welcome

reset(w) ==
    /\ welcome' = w
    /\ count' = ResetCount(count, w)
    /\ effects' = <<"set">>
    /\ UNCHANGED ping

(****************************** the handlers *******************************)
Before == [count |-> count, welcome |-> welcome, currentTime |-> ping.currentTime]

Record(op, arg) == last' = [op |-> op, arg |-> arg, before |-> Before]

BallMounted == ~welcome

PaddleOnCollide(impactVelocity) ==
    /\ BallMounted
    /\ pong(impactVelocity)
    /\ Record("pong", impactVelocity)
    /\ UNCHANGED paddleVars

ContactGroundOnCollide ==
    /\ BallMounted
    /\ reset(TRUE)
    /\ Record("ground", TRUE)
    /\ UNCHANGED paddleVars

\* mutant: the click handler without its welcome guard
onClick_Unguarded ==
    /\ reset(FALSE)
    /\ Record("click", welcome)
    /\ UNCHANGED paddleVars

onClick ==
    /\ IF welcome THEN reset(FALSE) ELSE UNCHANGED storeVars
    /\ Record("click", welcome)
    /\ UNCHANGED paddleVars

YawTarget(mouse) == (mouse[1] * Pi) \div 5

\* mutant: the tilt following the pointer's y
TiltTarget_MouseY(mouse) == (mouse[2] * Pi) \div 5
TiltTarget(mouse) == (mouse[1] * Pi) \div 5

useFrame(mouse) ==
    /\ values' = <<lerp(values[1], YawTarget(mouse)), lerp(values[2], TiltTarget(mouse))>>
    /\ position' = <<mouse[1] * 10, mouse[2] * 5, 0>>
    /\ rotation' = <<0, 0, values'[2]>>
    /\ modelRotation' = [x |-> lerp(modelRotation.x, IF welcome THEN Pi \div 2 ELSE 0),
                         y |-> values'[1]]
    /\ Record("frame", mouse)
    /\ UNCHANGED storeVars

\* the audio device plays the cue on and stops at its end
AudioAdvance ==
    /\ ~ping.paused
    /\ ping' = IF ping.currentTime + 1 >= ClipLength
               THEN [ping EXCEPT !.currentTime = ClipLength, !.paused = TRUE]
               ELSE [ping EXCEPT !.currentTime = ping.currentTime + 1]
    /\ Record("audio", TRUE)
    /\ UNCHANGED <<count, welcome, effects>>
    /\ UNCHANGED paddleVars

\* the store's operations called directly
CallPong(velocity) ==
    /\ pong(velocity)
    /\ Record("pong", velocity)
    /\ UNCHANGED paddleVars

CallReset(w) ==
    /\ reset(w)
    /\ Record("reset", w)
    /\ UNCHANGED paddleVars

(**************************** specifications *******************************)
InitRest ==
    /\ ping = [currentTime |-> 0, volume |-> VolumeOne, paused |-> TRUE]
    /\ effects = <<>>
    /\ values = <<0, 0>>
    /\ position = <<0, 0, 0>>
    /\ rotation = <<0, 0, 0>>
    /\ modelRotation = [x |-> 0, y |-> 0]
    /\ last = [op |-> "init", arg |-> TRUE,
               before |-> [count |-> count, welcome |-> welcome, currentTime |-> 0]]

Init ==
    /\ count = 0
    /\ welcome = TRUE
    /\ InitRest

Next ==
    \/ onClick
    \/ \E v \in Velocities : PaddleOnCollide(v)
    \/ ContactGroundOnCollide
    \/ \E m \in Pointers : useFrame(m)
    \/ AudioAdvance

Spec == Init /\ [][Next]_vars

\* the store in any state, its operations and the handlers called in any order
InitStore ==
    /\ count \in 0..MaxCount
    /\ welcome \in BOOLEAN
    /\ InitRest

NextStore ==
    \/ \E v \in Velocities : CallPong(v)
    \/ \E w \in BOOLEAN : CallReset(w)
    \/ onClick
    \/ \E m \in Pointers : useFrame(m)
    \/ AudioAdvance

SpecStore == InitStore /\ [][NextStore]_vars

(******************************** claims ***********************************)
AfterReset(w) == last.op = "reset" /\ last.arg = w
AfterPong == last.op = "pong"
AfterClick == last.op = "click"
AfterGround == last.op = "ground"
AfterFrame == last.op = "frame"

\* C1 as stated: after reset(true), from any prior state, welcome = true and
\* count = 0.
C1_ResetTrueClearsCount == AfterReset(TRUE) => (welcome = TRUE /\ count = 0)

\* C1 amended: after reset(true), from any prior state, welcome = true and
\* count is what it was before the call.
C1_ResetTrueKeepsCount ==
    AfterReset(TRUE) => (welcome = TRUE /\ count = last.before.count)

C1_Witness ==
    /\ AfterReset(TRUE)
    /\ last.before.count > 0
    /\ last.before.welcome = FALSE
    /\ welcome = TRUE

\* C2 as stated: after reset(false), from any prior state, welcome = false and
\* count is what it was before the call.
C2_ResetFalseKeepsCount ==
    AfterReset(FALSE) => (welcome = FALSE /\ count = last.before.count)

\* C2 amended: after reset(false), from any prior state, welcome = false and
\* count = 0.
C2_ResetFalseClearsCount == AfterReset(FALSE) => (welcome = FALSE /\ count = 0)

C2_Witness ==
    /\ AfterReset(FALSE)
    /\ last.before.count > 0
    /\ last.before.welcome = TRUE
    /\ welcome = FALSE

\* C3: pong(velocity) leaves count unchanged when velocity <= 4 (4 included),
\* adds exactly 1 to it when velocity > 4, and never changes welcome.
C3_PongThreshold ==
    AfterPong =>
        /\ last.arg <= 4 * VelocityUnit => count = last.before.count
        /\ last.arg > 4 * VelocityUnit => count = last.before.count + 1
        /\ welcome = last.before.welcome

C3_Witness ==
    /\ AfterPong
    /\ last.arg = 4 * VelocityUnit
    /\ last.before.count = 1
    /\ count = 1

\* C4 as stated: a ball-ground contact leaves the store at count = 0,
\* welcome = true, whatever the score was.
C4_GroundClearsCount == AfterGround => (count = 0 /\ welcome = TRUE)

\* C4 amended: a ball-ground contact leaves welcome = true and the score as it
\* was before the contact.
C4_GroundKeepsCount ==
    AfterGround => (welcome = TRUE /\ count = last.before.count)

C4_Witness == AfterGround /\ last.before.count > 0 /\ welcome = TRUE

\* C5: neither reset(true), reset(false), a click nor a frame update leaves
\* count greater than it was before; only pong can.
C5_OnlyPongIncreases ==
    last.op \in {"reset", "click", "frame"} => count <= last.before.count

C5_Witness ==
    /\ AfterClick
    /\ last.before.welcome = TRUE
    /\ last.before.count = MaxCount
    /\ count < last.before.count

\* C6: every step that starts and ends with welcome = false leaves count at
\* least what it was.
C6_RallyMonotone == [][(welcome = FALSE /\ welcome' = FALSE) => count' >= count]_vars

C6_Witness ==
    /\ last.before.welcome = FALSE
    /\ welcome = FALSE
    /\ AfterPong
    /\ count = last.before.count + 1
    /\ count > 1

\* C7: a click while welcome = false changes neither count nor welcome; a click
\* while welcome = true leaves welcome = false.
C7_ClickOnlyOnWelcome ==
    AfterClick =>
        IF last.before.welcome
        THEN welcome = FALSE
        ELSE welcome = FALSE /\ count = last.before.count

C7_Witness ==
    /\ AfterClick
    /\ last.before.welcome = FALSE
    /\ welcome = FALSE
    /\ count > 0

\* C8: whenever a click starts play (welcome goes from true to false), count
\* is 0 afterwards, also after an earlier rally that scored.
C8_ClickStartsAtZero ==
    (AfterClick /\ last.before.welcome = TRUE /\ welcome = FALSE) => count = 0

C8_Witness ==
    /\ AfterClick
    /\ last.before.welcome = TRUE
    /\ last.before.count > 0
    /\ welcome = FALSE
    /\ count = 0

\* C9: every pong(velocity) rewinds the cue to time 0, sets its volume to
\* velocity/20 held within [0, 1] and plays it, whether or not count is
\* incremented, and does so before the increment.
C9_PongAudio ==
    AfterPong =>
        /\ ping.currentTime = 0
        /\ ping.volume = Max(0, Min(VolumeOne, (last.arg * VolumeOne) \div (20 * VelocityUnit)))
        /\ ping.paused = FALSE
        /\ Len(effects) >= 3
        /\ SubSeq(effects, 1, 3) = <<"ping.currentTime", "ping.volume", "ping.play">>
        /\ \A i \in 1..Len(effects) : effects[i] = "set" => i > 3

C9_Witness ==
    /\ AfterPong
    /\ last.arg < 0
    /\ last.before.currentTime > 0
    /\ count = last.before.count
    /\ ping = [currentTime |-> 0, volume |-> 0, paused |-> FALSE]

\* C10: the two components of the smoothed input vector are always equal, and
\* after a frame tick the body's z rotation equals the model's y rotation.
C10_YawEqualsTilt ==
    /\ values[1] = values[2]
    /\ AfterFrame => rotation[3] = modelRotation.y

C10_Witness ==
    /\ AfterFrame
    /\ last.arg[1] # last.arg[2]
    /\ values[1] # 0
    /\ rotation[3] = modelRotation.y
    /\ rotation[3] = values[2]

====
